---- MODULE Spec2Model ----
(***************************************************************************)
(* URL-synchronised filter state: the useFilters hook (hooks/useFilters)   *)
(* over nuqs' useQueryStates.                                              *)
(*                                                                         *)
(* A string is a sequence of symbols: a symbol is the separator ",", its   *)
(* escape "%2C", a sign, a decimal digit, or a word (a chunk of other      *)
(* characters).  A typed value is a tagged record, so that null, strings,  *)
(* numbers, booleans and arrays are all distinct.                          *)
(***************************************************************************)
EXTENDS Integers, Sequences, FiniteSets, TLC

VARIABLES
    schema, \* the FilterSchema the hook was called with
    store,  \* the URL query: key -> Null (no such parameter) or Str(raw)
    state,  \* the `state` useQueryStates returned at the last render
    last,   \* the handler that ran last and the setState calls it made
    stale,  \* handlers run since the last render
    scn,    \* progress through the three-toggle scenario, -1 when left
    tl,     \* toggle-law monitor: an item toggled in, then toggled out
    defaultValues, \* the defaultValues useSearchForm was called with
    form    \* the values react-hook-form holds for the fields of the form

vars == <<schema, store, state, last, stale, scn, tl, defaultValues, form>>

----------------------------------------------------------------------------
(* Bounds of the model *)

\* toggles one event handler may issue against the state of one render
MaxSameTick == 2

----------------------------------------------------------------------------
(* Typed values *)

Null      == [t |-> "null"]
Undefined == [t |-> "undefined"]
Str(s)    == [t |-> "str", v |-> s]
Num(n)    == [t |-> "num", v |-> n]
Bool(b)   == [t |-> "bool", v |-> b]
Arr(a)    == [t |-> "arr", v |-> a]

Range(s) == {s[i] : i \in DOMAIN s}

W(w) == <<w>>

----------------------------------------------------------------------------
(* Strings *)

DigitChars == <<"0", "1", "2", "3", "4", "5", "6", "7", "8", "9">>

IsDigit(c) == \E i \in DOMAIN DigitChars : DigitChars[i] = c

DigitVal(c) == (CHOOSE i \in DOMAIN DigitChars : DigitChars[i] = c) - 1

RECURSIVE DigitPrefix(_)
DigitPrefix(q) ==
    IF q = <<>> \/ ~IsDigit(Head(q)) THEN <<>>
    ELSE <<Head(q)>> \o DigitPrefix(Tail(q))

RECURSIVE DigitsValue(_)
DigitsValue(ds) ==
    IF ds = <<>> THEN 0
    ELSE DigitsValue(SubSeq(ds, 1, Len(ds) - 1)) * 10 + DigitVal(ds[Len(ds)])

RECURSIVE Decimal(_)
Decimal(n) ==
    IF n < 10 THEN <<DigitChars[n + 1]>>
    ELSE Decimal(n \div 10) \o <<DigitChars[(n % 10) + 1]>>

\* String.prototype.split(separator)
RECURSIVE split(_, _)
split(q, sep) ==
    IF \A i \in DOMAIN q : q[i] # sep THEN <<q>>
    ELSE LET i == CHOOSE j \in DOMAIN q :
                      q[j] = sep /\ \A h \in 1..(j - 1) : q[h] # sep
         IN <<SubSeq(q, 1, i - 1)>> \o split(SubSeq(q, i + 1, Len(q)), sep)

\* Array.prototype.join(separator)
RECURSIVE join(_, _)
join(items, sep) ==
    IF items = <<>> THEN <<>>
    ELSE IF Len(items) = 1 THEN items[1]
    ELSE items[1] \o <<sep>> \o join(Tail(items), sep)

\* String.prototype.replaceAll, symbol for symbol
replaceAll(s, from, to) == [i \in DOMAIN s |-> IF s[i] = from THEN to ELSE s[i]]

separator == ","

encodedSeparator == "%2C"

----------------------------------------------------------------------------
(* nuqs parsers *)

parseAsString(q) == Str(q)

\* parseInt(v): optional sign, then the longest prefix of digits; NaN -> null
parseAsInteger(q) ==
    LET signed == q # <<>> /\ Head(q) \in {"-", "+"}
        digits == DigitPrefix(IF signed THEN Tail(q) ELSE q)
    IN IF digits = <<>> THEN Null
       ELSE IF signed /\ Head(q) = "-" THEN Num(0 - DigitsValue(digits))
       ELSE Num(DigitsValue(digits))

parseAsBoolean(q) == Bool(q = W("true"))

\* variant: the options are not looked at
parseAsStringLiteral_Any(options, q) == Str(q)

parseAsStringLiteral(options, q) ==
    IF q \in Range(options) THEN Str(q) ELSE Null

\* the parser of one item (or of a scalar field)
itemParse(p, q) ==
    CASE p.base = "string"  -> parseAsString(q)
      [] p.base = "integer" -> parseAsInteger(q)
      [] p.base = "boolean" -> parseAsBoolean(q)
      [] p.base = "literal" -> parseAsStringLiteral(p.options, q)

itemSerialize(p, v) ==
    CASE p.base = "string"  -> v.v
      [] p.base = "integer" -> IF v.v < 0 THEN <<"-">> \o Decimal(0 - v.v)
                                ELSE Decimal(v.v)
      [] p.base = "boolean" -> IF v.v THEN W("true") ELSE W("false")
      [] p.base = "literal" -> v.v

\* parseAsArrayOf(itemParser).parse
parseAsArrayOf(p, q) ==
    IF q = <<>> THEN Arr(<<>>)
    ELSE LET segs   == split(q, separator)
             parsed == [i \in DOMAIN segs |->
                           itemParse(p, replaceAll(segs[i], encodedSeparator, separator))]
             kept   == SelectSeq(parsed, LAMBDA r : r # Null)
         IN Arr([i \in DOMAIN kept |-> kept[i].v])

\* variant: a separator inside an item is not escaped
serializeArrayOf_NoEscape(p, v) ==
    join([i \in DOMAIN v.v |-> itemSerialize(p, Str(v.v[i]))], separator)

\* parseAsArrayOf(itemParser).serialize
serializeArrayOf(p, v) ==
    join([i \in DOMAIN v.v |->
             replaceAll(itemSerialize(p, Str(v.v[i])), separator, encodedSeparator)],
         separator)

parse(p, q) == IF p.array THEN parseAsArrayOf(p, q) ELSE itemParse(p, q)

serialize(p, v) == IF p.array THEN serializeArrayOf(p, v) ELSE itemSerialize(p, v)

----------------------------------------------------------------------------
(* Schemas *)

APPROVAL_STATUSES == <<W("PENDING"), W("APPROVED"), W("REJECTED")>>

DEVICES == <<W("DESKTOP"), W("MOBILE")>>

DATE_TYPES == <<W("CREATED_DATE"), W("UPDATED_DATE")>>

\* the schema of the demo page
filterSchema ==
    [programId |-> [type |-> "string"],
     statuses  |-> [type |-> "stringLiteralArray", options |-> APPROVAL_STATUSES],
     devices   |-> [type |-> "stringLiteralArray", options |-> DEVICES]]

\* a schema of the four scalar kinds
scalarSchema ==
    [keyword  |-> [type |-> "string"],
     dateType |-> [type |-> "stringLiteral", options |-> DATE_TYPES],
     page     |-> [type |-> "integer"],
     active   |-> [type |-> "boolean"]]

\* a free-text array field next to a scalar one
tagSchema ==
    [tags    |-> [type |-> "stringArray"],
     keyword |-> [type |-> "string"]]

Schemas == {filterSchema, scalarSchema, tagSchema}

Keys == DOMAIN schema

IsArrayType(config) == config.type = "stringArray" \/ config.type = "stringLiteralArray"

ArrayKeys == {k \in Keys : IsArrayType(schema[k])}

\* a parameter of the URL that no field of the schema names
UnknownKey == "utm"

\* variant: the array parsers without .withDefault([])
createParser_NoDefault(config) ==
    CASE config.type = "integer" ->
           [base |-> "integer", options |-> <<>>, array |-> FALSE,
            defaultValue |-> Undefined]
      [] config.type = "boolean" ->
           [base |-> "boolean", options |-> <<>>, array |-> FALSE,
            defaultValue |-> Undefined]
      [] config.type = "stringLiteral" ->
           [base |-> "literal", options |-> config.options, array |-> FALSE,
            defaultValue |-> Undefined]
      [] config.type = "stringArray" ->
           [base |-> "string", options |-> <<>>, array |-> TRUE,
            defaultValue |-> Undefined]
      [] config.type = "stringLiteralArray" ->
           [base |-> "literal", options |-> config.options, array |-> TRUE,
            defaultValue |-> Undefined]
      [] OTHER ->
           [base |-> "string", options |-> <<>>, array |-> FALSE,
            defaultValue |-> Undefined]

createParser(config) ==
    CASE config.type = "string" ->
           [base |-> "string", options |-> <<>>, array |-> FALSE,
            defaultValue |-> Undefined]
      [] config.type = "integer" ->
           [base |-> "integer", options |-> <<>>, array |-> FALSE,
            defaultValue |-> Undefined]
      [] config.type = "boolean" ->
           [base |-> "boolean", options |-> <<>>, array |-> FALSE,
            defaultValue |-> Undefined]
      [] config.type = "stringLiteral" ->
           [base |-> "literal", options |-> config.options, array |-> FALSE,
            defaultValue |-> Undefined]
      [] config.type = "stringArray" ->
           [base |-> "string", options |-> <<>>, array |-> TRUE,
            defaultValue |-> Arr(<<>>)]
      [] config.type = "stringLiteralArray" ->
           [base |-> "literal", options |-> config.options, array |-> TRUE,
            defaultValue |-> Arr(<<>>)]
      [] OTHER ->
           [base |-> "string", options |-> <<>>, array |-> FALSE,
            defaultValue |-> Undefined]

\* the Zod types the form schemas are built from
ZodString == [typeName |-> "ZodString"]

ZodNumber == [typeName |-> "ZodNumber"]

ZodBoolean == [typeName |-> "ZodBoolean"]

ZodEnum(values) == [typeName |-> "ZodEnum", values |-> values]

ZodArray(type) == [typeName |-> "ZodArray", type |-> type]

ZodOptional(innerType) == [typeName |-> "ZodOptional", innerType |-> innerType]

ZodDefault(innerType) == [typeName |-> "ZodDefault", innerType |-> innerType]

ZodNullable(innerType) == [typeName |-> "ZodNullable", innerType |-> innerType]

\* a Zod type the translator has no case for
ZodDate == [typeName |-> "ZodDate"]

REFERENCE_DATE_TYPES == <<W("CONVERSION_DATE"), W("APPROVAL_DATE")>>

\* the schema of the report form; mediaPropertyId and dateTo, declared like
\* programId and dateFrom, are left out
reportFormSchema ==
    [programId         |-> ZodOptional(ZodString),
     dateFrom          |-> ZodString,
     devices           |-> ZodArray(ZodEnum(DEVICES)),
     referenceDateType |-> ZodEnum(REFERENCE_DATE_TYPES)]

\* a form with a number, a flag and a free-text array
searchFormSchema ==
    [keyword |-> ZodString,
     page    |-> ZodDefault(ZodNumber),
     active  |-> ZodOptional(ZodBoolean),
     tags    |-> ZodArray(ZodString)]

\* a form with nested wrappers, a type without a case and an array whose
\* element is wrapped
wrappedFormSchema ==
    [since |-> ZodOptional(ZodDate),
     count |-> ZodNullable(ZodOptional(ZodDefault(ZodNumber))),
     kinds |-> ZodArray(ZodOptional(ZodEnum(DATE_TYPES)))]

ZodSchemas == {reportFormSchema, searchFormSchema, wrappedFormSchema}

\* variant: one wrapper is looked through, a wrapper inside it is not
zodToNuqsParser_Shallow(zodType) ==
    LET wrapped == zodType.typeName \in {"ZodOptional", "ZodNullable", "ZodDefault"}
        inner   == IF wrapped THEN zodType.innerType ELSE zodType
    IN CASE inner.typeName = "ZodNumber"  -> createParser([type |-> "integer"])
         [] inner.typeName = "ZodBoolean" -> createParser([type |-> "boolean"])
         [] inner.typeName = "ZodEnum" ->
              createParser([type |-> "stringLiteral", options |-> inner.values])
         [] inner.typeName = "ZodArray" ->
              IF inner.type.typeName = "ZodEnum"
              THEN createParser([type |-> "stringLiteralArray",
                                 options |-> inner.type.values])
              ELSE createParser([type |-> "stringArray"])
         [] OTHER -> createParser([type |-> "string"])

RECURSIVE zodToNuqsParser(_)
zodToNuqsParser(zodType) ==
    LET typeName == zodType.typeName
    IN IF typeName = "ZodOptional" \/ typeName = "ZodNullable"
       THEN zodToNuqsParser(zodType.innerType)
       ELSE IF typeName = "ZodDefault"
       THEN zodToNuqsParser(zodType.innerType)
       ELSE CASE typeName = "ZodString" ->
                   [base |-> "string", options |-> <<>>, array |-> FALSE,
                    defaultValue |-> Undefined]
              [] typeName = "ZodNumber" ->
                   [base |-> "integer", options |-> <<>>, array |-> FALSE,
                    defaultValue |-> Undefined]
              [] typeName = "ZodBoolean" ->
                   [base |-> "boolean", options |-> <<>>, array |-> FALSE,
                    defaultValue |-> Undefined]
              [] typeName = "ZodEnum" ->
                   [base |-> "literal", options |-> zodType.values, array |-> FALSE,
                    defaultValue |-> Undefined]
              [] typeName = "ZodArray" ->
                   IF zodType.type.typeName = "ZodEnum"
                   THEN [base |-> "literal", options |-> zodType.type.values,
                         array |-> TRUE, defaultValue |-> Arr(<<>>)]
                   ELSE [base |-> "string", options |-> <<>>,
                         array |-> TRUE, defaultValue |-> Arr(<<>>)]
              [] OTHER ->
                   [base |-> "string", options |-> <<>>, array |-> FALSE,
                    defaultValue |-> Undefined]

createParsersFromZodSchema(shape) ==
    [key \in DOMAIN shape |-> zodToNuqsParser(shape[key])]

\* the hook in use: useSearchForm takes a Zod schema, useFilters a FilterSchema
IsZodSchema == \A key \in Keys : "typeName" \in DOMAIN schema[key]

parsers ==
    IF IsZodSchema THEN createParsersFromZodSchema(schema)
    ELSE [key \in Keys |-> createParser(schema[key])]

----------------------------------------------------------------------------
(* useQueryStates *)

\* variant: every parameter of the URL is read, known to the schema or not
Project_AllParams(s) ==
    [key \in DOMAIN s |->
        IF key \notin DOMAIN parsers THEN s[key]
        ELSE LET p     == parsers[key]
                 value == IF s[key] = Null THEN Null ELSE parse(p, s[key].v)
             IN IF value # Null THEN value
                ELSE IF p.defaultValue # Undefined THEN p.defaultValue
                ELSE Null]

\* the state read from the URL: value ?? defaultValue ?? null for every parser
Project(s) ==
    [key \in DOMAIN parsers |->
        LET p     == parsers[key]
            value == IF s[key] = Null THEN Null ELSE parse(p, s[key].v)
        IN IF value # Null THEN value
           ELSE IF p.defaultValue # Undefined THEN p.defaultValue
           ELSE Null]

\* variant: clearOnDefault is off
queryOf_KeepDefault(key, value) ==
    IF value = Null THEN Null ELSE Str(serialize(parsers[key], value))

\* the query string one key of an update is written as (Null: key removed);
\* clearOnDefault drops a value equal to the parser's default
queryOf(key, value) ==
    LET p == parsers[key]
    IN IF value = Null THEN Null
       ELSE IF p.defaultValue # Undefined /\ value = p.defaultValue THEN Null
       ELSE Str(serialize(p, value))

\* setState(patch): one update of the URL carrying every key of the patch
setState(s, patch) ==
    [key \in DOMAIN s |->
        IF key \in DOMAIN patch /\ key \in DOMAIN parsers
        THEN queryOf(key, patch[key])
        ELSE s[key]]

----------------------------------------------------------------------------
(* Inputs *)

\* raw query strings a shared or hand-edited URL may carry for a field
RawSamples(config) ==
    CASE config.type = "string"  -> {W("PRG-001")}
      [] config.type = "integer" -> {W("abc"), <<"1", "2", "abc">>}
      [] config.type = "boolean" -> {W("true"), W("yes")}
      [] config.type = "stringLiteral" -> {config.options[2], W("BOGUS")}
      [] config.type = "stringArray" -> {<<"a", ",", ",", "b", "%2C", "c">>}
      [] config.type = "stringLiteralArray" ->
           {<<>>,
            config.options[2] \o <<",">> \o W("BOGUS") \o <<",">> \o config.options[1],
            config.options[1] \o <<",">> \o config.options[1]}

\* values a caller passes to setFilter: null, values of the field's kind and,
\* for a literal field, a string outside its options; the strings of an array
\* are non-empty and free of the escape of the separator
ValueInputs(config) ==
    CASE config.type = "string"  -> {Null, Str(W("PRG-001")), Str(<<>>)}
      [] config.type = "integer" -> {Null, Num(12), Num(0 - 3)}
      [] config.type = "boolean" -> {Null, Bool(TRUE), Bool(FALSE)}
      [] config.type = "stringLiteral" -> {Null, Str(config.options[1]), Str(W("BOGUS"))}
      [] config.type = "stringArray" ->
           {Null, Arr(<<>>), Arr(<<<<"b", ",", "c">>, W("a")>>)}
      [] config.type = "stringLiteralArray" ->
           {Null, Arr(<<>>), Arr(<<config.options[2], config.options[1]>>)}

\* items a caller passes to toggleArrayItem
ItemInputs(config) ==
    CASE config.type = "stringArray" -> {W("a"), <<"b", ",", "c">>}
      [] config.type = "stringLiteralArray" ->
           IF Len(config.options) > 2 THEN Range(config.options)
           ELSE Range(config.options) \cup {W("TABLET")}
      [] OTHER -> {W("a")}

\* one value per field, restricted to two or more fields for setFilters
SampleValue(config) ==
    CASE config.type = "string"  -> Str(W("PRG-001"))
      [] config.type = "integer" -> Num(12)
      [] config.type = "boolean" -> Bool(FALSE)
      [] config.type = "stringLiteral" -> Str(config.options[2])
      [] config.type = "stringArray" -> Arr(<<W("a")>>)
      [] config.type = "stringLiteralArray" -> Arr(<<config.options[1]>>)

PatchInputs ==
    {[key \in ks |-> SampleValue(schema[key])] :
        ks \in {x \in SUBSET Keys : Cardinality(x) >= 2}}
    \cup {[key \in Keys |-> IF IsArrayType(schema[key]) THEN Arr(<<>>) ELSE Null]}

----------------------------------------------------------------------------
(* The hook *)

NoOp ==
    [op |-> "none", key |-> "", arg |-> Null, calls |-> <<>>, again |-> FALSE,
     lost |-> FALSE]

NoLaw == [ph |-> 0, key |-> "", item |-> <<>>, S |-> <<>>]

includes(a, item) == \E i \in DOMAIN a : a[i] = item

\* the next step of the scenario of toggles APPROVED, PENDING, APPROVED
ScenarioItem(n) ==
    CASE n = 0 -> W("APPROVED")
      [] n = 1 -> W("PENDING")
      [] n = 2 -> W("APPROVED")
      [] OTHER -> <<>>

ScenarioNext(key, item) ==
    IF scn >= 0 /\ stale = 0 /\ key = "statuses" /\ item = ScenarioItem(scn)
    THEN scn + 1 ELSE 0 - 1

LawNext(key, item) ==
    IF stale # 0 \/ state[key].t # "arr" THEN NoLaw
    ELSE IF tl.ph = 1 /\ tl.key = key /\ tl.item = item
         THEN [tl EXCEPT !.ph = 2]
    ELSE IF ~includes(state[key].v, item)
         THEN [ph |-> 1, key |-> key, item |-> item, S |-> state[key].v]
    ELSE NoLaw

\* the URLs the page may be opened with
InitStores(sch) ==
    LET raws == UNION {RawSamples(sch[k]) : k \in DOMAIN sch} \cup {W("x")}
        absentOr(qs) == {Null} \cup {Str(q) : q \in qs}
    IN {s \in [DOMAIN sch \cup {UnknownKey} -> absentOr(raws)] :
           /\ \A k \in DOMAIN sch : s[k] \in absentOr(RawSamples(sch[k]))
           /\ s[UnknownKey] \in absentOr({W("x")})}

Init ==
    /\ schema \in Schemas
    /\ store \in InitStores(schema)
    /\ state = Project(store)
    /\ last = NoOp
    /\ stale = 0
    /\ scn = IF \A k \in DOMAIN store : store[k] = Null THEN 0 ELSE 0 - 1
    /\ tl = NoLaw
    /\ defaultValues = <<>>
    /\ form = <<>>

\* the URL after a sequence of setState calls
RECURSIVE applyCalls(_, _)
applyCalls(s, calls) ==
    IF calls = <<>> THEN s
    ELSE applyCalls(setState(s, Head(calls)), Tail(calls))

\* a handler ran: the URL is updated by its setState calls, in order;
\* `again` tells that the handler before it was the very same call, `lost`
\* that it is a toggle issued, before any render, after a toggle of another
\* item of the same field
Ran(op, key, arg, calls) ==
    /\ stale' = stale + 1
    /\ last' = [op |-> op, key |-> key, arg |-> arg, calls |-> calls,
                again |-> (last.op = op /\ last.key = key /\ last.arg = arg),
                lost  |-> /\ op = "toggleArrayItem" /\ last.op = op /\ stale > 0
                          /\ last.key = key /\ last.arg # arg]
    /\ store' = applyCalls(store, calls)
    /\ UNCHANGED <<schema, state, defaultValues, form>>

\* variant: the whole snapshot is written back with the one key changed
setFilterCalls_Spread(key, value) == <<[k \in Keys |-> IF k = key THEN value ELSE state[k]]>>

setFilterCalls(key, value) == <<key :> value>>

setFilter(key, value) ==
    /\ stale = 0
    /\ Ran("setFilter", key, value, setFilterCalls(key, value))
    /\ scn' = 0 - 1
    /\ tl' = NoLaw

\* variant: one setState call for one key, another for the rest
setFiltersCalls_PerKey(values) ==
    LET first == CHOOSE k \in DOMAIN values : TRUE
    IN <<first :> values[first],
         [k \in DOMAIN values \ {first} |-> values[k]]>>

setFiltersCalls(values) == <<values>>

setFilters(values) ==
    /\ stale = 0
    /\ Ran("setFilters", "", values, setFiltersCalls(values))
    /\ scn' = 0 - 1
    /\ tl' = NoLaw

\* variant: a new item goes to the front
toggleArrayItemCalls_Prepend(key, item) ==
    LET currentValue == state[key]
    IN IF currentValue.t # "arr" THEN <<>>
       ELSE LET newValue ==
                    IF includes(currentValue.v, item)
                    THEN SelectSeq(currentValue.v, LAMBDA v : v # item)
                    ELSE <<item>> \o currentValue.v
            IN <<key :> Arr(newValue)>>

\* variant: the items of a literal array are kept in the order of its options
toggleArrayItemCalls_OptionOrder(key, item) ==
    LET currentValue == state[key]
    IN IF currentValue.t # "arr" THEN <<>>
       ELSE LET newValue ==
                    IF includes(currentValue.v, item)
                    THEN SelectSeq(currentValue.v, LAMBDA v : v # item)
                    ELSE IF schema[key].type = "stringLiteralArray"
                    THEN SelectSeq(schema[key].options,
                                   LAMBDA o : o = item \/ includes(currentValue.v, o))
                    ELSE Append(currentValue.v, item)
            IN <<key :> Arr(newValue)>>

\* variant: an item that is present is not removed
toggleArrayItemCalls_NoRemove(key, item) ==
    LET currentValue == state[key]
    IN IF currentValue.t # "arr" THEN <<>>
       ELSE <<key :> Arr(Append(currentValue.v, item))>>

\* variant: a value that is not an array is written back instead of left alone
toggleArrayItemCalls_NoGuard(key, item) ==
    LET currentValue == state[key]
    IN IF currentValue.t # "arr" THEN <<key :> currentValue>>
       ELSE LET newValue ==
                    IF includes(currentValue.v, item)
                    THEN SelectSeq(currentValue.v, LAMBDA v : v # item)
                    ELSE Append(currentValue.v, item)
            IN <<key :> Arr(newValue)>>

\* variant: the new value is computed from the URL as it is at the call
toggleArrayItemCalls_Fresh(key, item) ==
    LET currentValue == Project(store)[key]
    IN IF currentValue.t # "arr" THEN <<>>
       ELSE LET newValue ==
                    IF includes(currentValue.v, item)
                    THEN SelectSeq(currentValue.v, LAMBDA v : v # item)
                    ELSE Append(currentValue.v, item)
            IN <<key :> Arr(newValue)>>

\* variant: only the first occurrence of the item is removed
toggleArrayItemCalls_FirstOnly(key, item) ==
    LET currentValue == state[key]
    IN IF currentValue.t # "arr" THEN <<>>
       ELSE LET a     == currentValue.v
                first == CHOOSE i \in DOMAIN a :
                            a[i] = item /\ \A j \in 1..(i - 1) : a[j] # item
                newValue ==
                    IF includes(a, item)
                    THEN SubSeq(a, 1, first - 1) \o SubSeq(a, first + 1, Len(a))
                    ELSE Append(a, item)
            IN <<key :> Arr(newValue)>>

toggleArrayItemCalls(key, item) ==
    LET currentValue == state[key]
    IN IF currentValue.t # "arr" THEN <<>>
       ELSE LET newValue ==
                    IF includes(currentValue.v, item)
                    THEN SelectSeq(currentValue.v, LAMBDA v : v # item)
                    ELSE Append(currentValue.v, item)
            IN <<key :> Arr(newValue)>>

toggleArrayItem(key, item) ==
    /\ stale < MaxSameTick
    /\ Ran("toggleArrayItem", key, Str(item), toggleArrayItemCalls(key, item))
    /\ scn' = ScenarioNext(key, item)
    /\ tl' = LawNext(key, item)

\* variant: the array fields are left out of the patch
clearFiltersCalls_ScalarsOnly ==
    <<[key \in {k \in Keys : ~IsArrayType(schema[k])} |-> Null]>>

\* variant: a field that is already clear is set, the others are cleared
clearFiltersCalls_Flip ==
    <<[key \in Keys |->
          IF state[key] = (IF IsArrayType(schema[key]) THEN Arr(<<>>) ELSE Null)
          THEN SampleValue(schema[key])
          ELSE IF IsArrayType(schema[key]) THEN Arr(<<>>) ELSE Null]>>

clearFiltersCalls ==
    LET cleared == [key \in Keys |->
                       IF schema[key].type = "stringArray"
                          \/ schema[key].type = "stringLiteralArray"
                       THEN Arr(<<>>) ELSE Null]
    IN <<cleared>>

clearFilters ==
    /\ stale = 0
    /\ Ran("clearFilters", "", Null, clearFiltersCalls)
    /\ scn' = 0 - 1
    /\ tl' = NoLaw

\* variant: the patch of clearFilters, every field of it
clearFilterCalls_All(key) ==
    <<[k \in Keys |-> IF IsArrayType(schema[k]) THEN Arr(<<>>) ELSE Null]>>

clearFilterCalls(key) ==
    LET config == schema[key]
        defaultValue ==
            IF config.type = "stringArray" \/ config.type = "stringLiteralArray"
            THEN Arr(<<>>) ELSE Null
    IN <<key :> defaultValue>>

clearFilter(key) ==
    /\ stale = 0
    /\ Ran("clearFilter", key, Null, clearFilterCalls(key))
    /\ scn' = 0 - 1
    /\ tl' = NoLaw

\* React renders again: useQueryStates returns the state of the current URL
Render ==
    /\ stale > 0
    /\ state' = Project(store)
    /\ stale' = 0
    /\ UNCHANGED <<schema, store, last, scn, tl, defaultValues, form>>

Next ==
    \/ \E key \in Keys : \E value \in ValueInputs(schema[key]) : setFilter(key, value)
    \/ \E values \in PatchInputs : setFilters(values)
    \/ \E key \in Keys : \E item \in ItemInputs(schema[key]) : toggleArrayItem(key, item)
    \/ clearFilters
    \/ \E key \in Keys : clearFilter(key)
    \/ Render

Spec == Init /\ [][Next]_vars

----------------------------------------------------------------------------
(* useSearchForm *)

\* the FilterSchema field with the parser of a Zod type, to draw inputs for it
configOf(zodType) ==
    LET p == zodToNuqsParser(zodType)
    IN IF p.base = "literal"
       THEN [type |-> IF p.array THEN "stringLiteralArray" ELSE "stringLiteral",
             options |-> p.options]
       ELSE IF p.array THEN [type |-> "stringArray"]
       ELSE [type |-> p.base]

\* defaultValues a page passes: every field, or the required fields only
DefaultInputs(shape) ==
    IF shape = reportFormSchema
    THEN LET all == [programId         |-> Str(<<>>),
                     dateFrom          |-> Str(W("2024-01-01")),
                     devices           |-> Arr(DEVICES),
                     referenceDateType |-> Str(W("CONVERSION_DATE"))]
         IN {all, [key \in DOMAIN all \ {"programId"} |-> all[key]]}
    ELSE IF shape = searchFormSchema
    THEN LET all == [keyword |-> Str(<<>>),
                     page    |-> Num(1),
                     active  |-> Bool(TRUE),
                     tags    |-> Arr(<<>>)]
         IN {all, [key \in DOMAIN all \ {"active"} |-> all[key]]}
    ELSE LET all == [count |-> Num(1),
                     kinds |-> Arr(<<W("CREATED_DATE")>>)]
         IN {all, [key \in DOMAIN all \ {"count"} |-> all[key]]}

\* values the user can give a field of the form
FormInputs(zodType) == ValueInputs(configOf(zodType)) \ {Null}

\* urlValue?.length > 0
hasLength(urlValue) ==
    IF urlValue.t = "arr" \/ urlValue.t = "str" THEN Len(urlValue.v) > 0 ELSE FALSE

\* variant: an array default is merged like a scalar one
initialValues_Nullish(urlState, defaults) ==
    [key \in DOMAIN defaults |->
        LET urlValue == IF key \in DOMAIN urlState THEN urlState[key] ELSE Undefined
        IN IF urlValue = Null \/ urlValue = Undefined THEN defaults[key] ELSE urlValue]

\* variant: a falsy value of the URL gives way to the default (|| for ??)
initialValues_Falsy(urlState, defaults) ==
    [key \in DOMAIN defaults |->
        LET urlValue     == IF key \in DOMAIN urlState THEN urlState[key] ELSE Undefined
            defaultValue == defaults[key]
            falsy == \/ urlValue = Null \/ urlValue = Undefined
                     \/ urlValue = Bool(FALSE) \/ urlValue = Str(<<>>)
        IN IF defaultValue.t = "arr"
           THEN IF hasLength(urlValue) THEN urlValue ELSE defaultValue
           ELSE IF falsy THEN defaultValue
           ELSE urlValue]

\* variant: every field of the URL state is merged, defaulted or not
initialValues_AllKeys(urlState, defaults) ==
    [key \in DOMAIN urlState \cup DOMAIN defaults |->
        IF key \notin DOMAIN defaults THEN urlState[key]
        ELSE LET urlValue     == IF key \in DOMAIN urlState THEN urlState[key] ELSE Undefined
                 defaultValue == defaults[key]
             IN IF defaultValue.t = "arr"
                THEN IF hasLength(urlValue) THEN urlValue ELSE defaultValue
                ELSE IF urlValue = Null \/ urlValue = Undefined THEN defaultValue
                ELSE urlValue]

initialValues(urlState, defaults) ==
    [key \in DOMAIN defaults |->
        LET urlValue     == IF key \in DOMAIN urlState THEN urlState[key] ELSE Undefined
            defaultValue == defaults[key]
        IN IF defaultValue.t = "arr"
           THEN IF hasLength(urlValue) THEN urlValue ELSE defaultValue
           ELSE IF urlValue = Null \/ urlValue = Undefined THEN defaultValue
           ELSE urlValue]

\* zodResolver(schema): the values handleSubmit lets through
RECURSIVE safeParse(_, _)
safeParse(zodType, value) ==
    LET typeName == zodType.typeName
    IN CASE typeName = "ZodOptional" ->
              value = Undefined \/ safeParse(zodType.innerType, value)
         [] typeName = "ZodDefault" ->
              value = Undefined \/ safeParse(zodType.innerType, value)
         [] typeName = "ZodString"  -> value.t = "str"
         [] typeName = "ZodNumber"  -> value.t = "num"
         [] typeName = "ZodBoolean" -> value.t = "bool"
         [] typeName = "ZodEnum"    ->
              value.t = "str" /\ value.v \in Range(zodType.values)
         [] typeName = "ZodNullable" ->
              value = Null \/ safeParse(zodType.innerType, value)
         [] typeName = "ZodArray"   ->
              /\ value.t = "arr"
              /\ \A item \in Range(value.v) : safeParse(zodType.type, Str(item))
         [] OTHER -> FALSE

isValid(data) ==
    \A key \in Keys :
        safeParse(schema[key], IF key \in DOMAIN data THEN data[key] ELSE Undefined)

InitForm ==
    /\ schema \in ZodSchemas
    /\ store \in InitStores([key \in DOMAIN schema |-> configOf(schema[key])])
    /\ defaultValues \in DefaultInputs(schema)
    /\ state = Project(store)
    /\ form = initialValues(state, defaultValues)
    /\ last = NoOp
    /\ stale = 0
    /\ scn = 0 - 1
    /\ tl = NoLaw

\* the user edits one field of the form
setValue(key, value) ==
    /\ stale = 0
    /\ form' = [k \in DOMAIN form \cup {key} |-> IF k = key THEN value ELSE form[k]]
    /\ UNCHANGED <<schema, store, state, last, stale, scn, tl, defaultValues>>

\* variant: an empty string is written as it is
searchCalls_KeepEmpty(data) == <<data>>

searchCalls(data) ==
    LET urlParams == [key \in DOMAIN data |->
                         IF data[key].t = "str" /\ data[key].v = <<>>
                         THEN Null ELSE data[key]]
    IN <<urlParams>>

search ==
    /\ stale = 0
    /\ isValid(form)
    /\ Ran("search", "", form, searchCalls(form))
    /\ UNCHANGED <<scn, tl>>

\* variant: every field of the schema is removed from the URL
resetCalls_AllNull == <<[key \in Keys |-> Null]>>

\* clearFilters of useSearchForm: the form is reset and the defaults are written
resetCalls ==
    LET urlParams == [key \in DOMAIN defaultValues |->
                         IF defaultValues[key].t = "str" /\ defaultValues[key].v = <<>>
                         THEN Null ELSE defaultValues[key]]
    IN <<urlParams>>

reset ==
    /\ stale = 0
    /\ form' = defaultValues
    /\ stale' = stale + 1
    /\ last' = [op |-> "reset", key |-> "", arg |-> defaultValues, calls |-> resetCalls,
                again |-> (last.op = "reset"), lost |-> FALSE]
    /\ store' = applyCalls(store, resetCalls)
    /\ UNCHANGED <<schema, state, scn, tl, defaultValues>>

NextForm ==
    \/ \E key \in Keys : \E value \in FormInputs(schema[key]) : setValue(key, value)
    \/ search
    \/ reset
    \/ Render

SpecForm == InitForm /\ [][NextForm]_vars

----------------------------------------------------------------------------
(* useReportFilters: the report sample *)

STATUSES == <<W("PENDING"), W("APPROVED"), W("REJECTED")>>

\* the schema of the report sample; keyword, dateType, categories and
\* pageSize, declared like fields that are kept, are left out
reportFilterSchema ==
    [dateFrom |-> [type |-> "string"],
     dateTo   |-> [type |-> "string"],
     statuses |-> [type |-> "stringLiteralArray", options |-> STATUSES],
     page     |-> [type |-> "integer"]]

\* the first day of the month and today, as ISO dates
getDefaultDateFrom == W("2024-01-01")

getDefaultDateTo == W("2024-01-31")

\* the filters the page shows: the state with the defaults filled in
filtersWithDefaults(filters) ==
    [dateFrom |-> IF filters["dateFrom"] # Null THEN filters["dateFrom"]
                  ELSE Str(getDefaultDateFrom),
     dateTo   |-> IF filters["dateTo"] # Null THEN filters["dateTo"]
                  ELSE Str(getDefaultDateTo),
     statuses |-> IF Len(filters["statuses"].v) > 0 THEN filters["statuses"]
                  ELSE Arr(STATUSES),
     page     |-> IF filters["page"] # Null THEN filters["page"] ELSE Num(1)]

\* dates the date picker hands to setDateRange
DateInputs == {W("2024-02-01"), W("2024-02-29")}

setDateRangeCalls(from, to) ==
    setFilterCalls("dateFrom", Str(from)) \o setFilterCalls("dateTo", Str(to))

setDateRange(from, to) ==
    /\ stale = 0
    /\ Ran("setDateRange", "", Arr(<<from, to>>), setDateRangeCalls(from, to))
    /\ scn' = 0 - 1
    /\ tl' = NoLaw

setPage(page) == setFilter("page", Num(page))

InitReport ==
    /\ schema = reportFilterSchema
    /\ store \in InitStores(schema)
    /\ state = Project(store)
    /\ last = NoOp
    /\ stale = 0
    /\ scn = 0 - 1
    /\ tl = NoLaw
    /\ defaultValues = <<>>
    /\ form = <<>>

NextReport ==
    \/ \E from, to \in DateInputs : setDateRange(from, to)
    \/ \E page \in {2, 12} : setPage(page)
    \/ \E item \in Range(STATUSES) : toggleArrayItem("statuses", item)
    \/ clearFilters
    \/ \E key \in Keys : clearFilter(key)
    \/ Render

SpecReport == InitReport /\ [][NextReport]_vars

----------------------------------------------------------------------------
(* useSearchForm of the react-hook-form sample *)

CATEGORIES == <<W("TYPE_A"), W("TYPE_B")>>

\* the schema of the form sample; dateFrom, dateTo and statuses, declared
\* and handled like keyword and categories, are left out
searchFilterSchema ==
    [keyword    |-> [type |-> "string"],
     dateType   |-> [type |-> "stringLiteral", options |-> DATE_TYPES],
     categories |-> [type |-> "stringLiteralArray", options |-> CATEGORIES]]

\* the form values computed from the filters of a render
formValues(filters) ==
    [keyword  |-> IF filters["keyword"] # Null THEN filters["keyword"] ELSE Str(<<>>),
     dateType |-> IF filters["dateType"] # Null THEN filters["dateType"]
                  ELSE Str(W("CREATED_DATE")),
     categories |-> IF Len(filters["categories"].v) > 0 THEN filters["categories"]
                    ELSE Arr(CATEGORIES)]

resetValues ==
    [keyword    |-> Str(<<>>),
     dateType   |-> Str(W("CREATED_DATE")),
     categories |-> Arr(CATEGORIES)]

\* a handler of the sample: the form is set and setFilter calls are made
Changed(op, key, arg, values, calls) ==
    /\ stale = 0
    /\ form' = values
    /\ stale' = stale + 1
    /\ last' = [op |-> op, key |-> key, arg |-> arg, calls |-> calls,
                again |-> (last.op = op /\ last.key = key /\ last.arg = arg),
                lost  |-> FALSE]
    /\ store' = applyCalls(store, calls)
    /\ UNCHANGED <<schema, state, scn, tl, defaultValues>>

\* onChange of the keyword input: updateKeyword(value) is setFilter(value || null)
updateKeyword(value) ==
    Changed("updateKeyword", "keyword", Str(value),
            [form EXCEPT !["keyword"] = Str(value)],
            setFilterCalls("keyword", IF value = <<>> THEN Null ELSE Str(value)))

updateDateType(value) ==
    Changed("updateDateType", "dateType", Str(value),
            [form EXCEPT !["dateType"] = Str(value)],
            setFilterCalls("dateType", Str(value)))

\* a click on the checkbox of a category, which is checked when the form has it
toggleCategory(category) ==
    LET current   == form["categories"].v
        checked   == ~includes(current, category)
        newValues == IF checked THEN Append(current, category)
                     ELSE SelectSeq(current, LAMBDA c : c # category)
    IN Changed("toggleCategory", "categories", Str(category),
               [form EXCEPT !["categories"] = Arr(newValues)],
               setFilterCalls("categories", Arr(newValues)))

formClearFiltersCalls ==
    setFilterCalls("keyword", Null)
        \o setFilterCalls("dateType", Str(W("CREATED_DATE")))
        \o setFilterCalls("categories", Arr(CATEGORIES))

formClearFilters ==
    Changed("formClearFilters", "", Null, resetValues, formClearFiltersCalls)

\* URLs of the page in the history of the tab
HistoryEntries ==
    {[keyword |-> Null, dateType |-> Null, categories |-> Null, utm |-> Null],
     [keyword |-> Str(W("PRG-001")), dateType |-> Null,
      categories |-> Str(W("TYPE_B")), utm |-> Null],
     [keyword |-> Null, dateType |-> Str(W("UPDATED_DATE")),
      categories |-> Str(W("TYPE_B") \o <<",">> \o W("TYPE_A")), utm |-> Str(W("x"))]}

\* back or forward: the browser restores another URL and fires popstate. The
\* listener is the one the last render registered and resets the form from
\* the filters of that render; if React renders while the event is being
\* dispatched the listener is replaced before its turn and nothing runs
handlePopState(restored) ==
    /\ stale = 0
    /\ restored # store
    /\ store' = restored
    /\ form' \in {formValues(state), form}
    /\ stale' = stale + 1
    /\ last' = [op |-> "popstate", key |-> "", arg |-> Null, calls |-> <<>>,
                again |-> FALSE, lost |-> FALSE]
    /\ UNCHANGED <<schema, state, scn, tl, defaultValues>>

InitSearch ==
    /\ schema = searchFilterSchema
    /\ store \in InitStores(schema)
    /\ state = Project(store)
    /\ form = formValues(state)
    /\ last = NoOp
    /\ stale = 0
    /\ scn = 0 - 1
    /\ tl = NoLaw
    /\ defaultValues = <<>>

NextSearch ==
    \/ \E value \in {<<>>, W("PRG-001")} : updateKeyword(value)
    \/ \E value \in Range(DATE_TYPES) : updateDateType(value)
    \/ \E category \in Range(CATEGORIES) : toggleCategory(category)
    \/ formClearFilters
    \/ \E restored \in HistoryEntries : handlePopState(restored)
    \/ Render

SpecSearch == InitSearch /\ [][NextSearch]_vars

----------------------------------------------------------------------------
(* Properties *)

\* the kind-appropriate cleared value of a field
Cleared(key) == IF IsArrayType(schema[key]) THEN Arr(<<>>) ELSE Null

\* s with every element equal to x left out, the rest in order
RECURSIVE Without(_, _)
Without(s, x) ==
    IF s = <<>> THEN <<>>
    ELSE IF Head(s) = x THEN Without(Tail(s), x)
    ELSE <<Head(s)>> \o Without(Tail(s), x)

\* this step is a run of the handler `op`
Handled(op) == stale' = stale + 1 /\ last'.op = op

\* the snapshot `state` is still the one the last handler read
ReadByLast(op) == last.op = op /\ stale > 0

\* C1: toggleArrayItem on an array field reads the snapshot value S of the
\* field and issues one setState call with one key: S without the item when
\* S holds it (the other elements in their order), S with the item appended
\* when it does not.
C1_ToggleWritesOneValue ==
    (ReadByLast("toggleArrayItem") /\ state[last.key].t = "arr") =>
        LET S == state[last.key].v
            x == last.arg.v
        IN /\ Len(last.calls) = 1
           /\ DOMAIN last.calls[1] = {last.key}
           /\ last.calls[1][last.key] =
                 Arr(IF \E i \in DOMAIN S : S[i] = x
                     THEN Without(S, x) ELSE S \o <<x>>)
           /\ store[last.key] = queryOf(last.key, last.calls[1][last.key])

\* a removal from the middle of a snapshot value of three items
C1_Witness ==
    /\ ReadByLast("toggleArrayItem")
    /\ state[last.key].t = "arr"
    /\ Len(state[last.key].v) = 3
    /\ state[last.key].v[2] = last.arg.v
    /\ Len(last.calls[1][last.key].v) = 2

\* C2: from the empty URL, toggling APPROVED, PENDING, APPROVED on statuses
\* (a render after each) leaves statuses=APPROVED, then
\* statuses=APPROVED,PENDING, then statuses=PENDING.
C2_ToggleScenario ==
    /\ scn = 1 => /\ store["statuses"] = Str(<<"APPROVED">>)
                  /\ Project(store)["statuses"] = Arr(<<W("APPROVED")>>)
    /\ scn = 2 => /\ store["statuses"] = Str(<<"APPROVED", ",", "PENDING">>)
                  /\ Project(store)["statuses"] = Arr(<<W("APPROVED"), W("PENDING")>>)
    /\ scn = 3 => /\ store["statuses"] = Str(<<"PENDING">>)
                  /\ Project(store)["statuses"] = Arr(<<W("PENDING")>>)

C2_Witness == scn = 3 /\ stale = 0

WellTyped(config, value) ==
    CASE config.type = "string"  -> value = Null \/ value.t = "str"
      [] config.type = "integer" -> value = Null \/ (value.t = "num" /\ value.v \in Int)
      [] config.type = "boolean" -> value = Null \/ (value.t = "bool" /\ value.v \in BOOLEAN)
      [] config.type = "stringLiteral" ->
           value = Null \/ (value.t = "str" /\ value.v \in Range(config.options))
      [] config.type = "stringArray" -> value.t = "arr"
      [] config.type = "stringLiteralArray" ->
           value.t = "arr" /\ \A i \in DOMAIN value.v : value.v[i] \in Range(config.options)

C4_ProjectTotal ==
    /\ DOMAIN Project(store) = DOMAIN schema
    /\ DOMAIN state = DOMAIN schema
    /\ \A key \in DOMAIN schema : WellTyped(schema[key], Project(store)[key])

\* a URL with a parameter of no field and a malformed number
C4_Witness ==
    /\ schema = scalarSchema
    /\ store[UnknownKey] # Null
    /\ store["page"] = Str(W("abc"))
    /\ store["dateType"] = Str(W("BOGUS"))
    /\ state["page"] = Null

\* C5: in every snapshot, and in the state read from every reachable URL, an
\* array field holds a sequence, never null.
C5_ArraysNeverNull ==
    \A key \in ArrayKeys :
        /\ state[key].t = "arr"
        /\ Project(store)[key].t = "arr"

\* a rendered snapshot of a URL that clearFilters removed an array field from
C5_Witness ==
    /\ last.op = "clearFilters"
    /\ stale = 0
    /\ \E key \in ArrayKeys : store[key] = Null /\ state[key] = Arr(<<>>)

\* every parameter of the URL but those of `keys` is as it was
OthersKept(keys) == \A k \in DOMAIN store : k \notin keys => store'[k] = store[k]

\* C6: clearFilter(field) removes the field from the URL, so that it decodes
\* to null (the empty sequence for an array field), and leaves every other
\* parameter of the URL as it was.
C6_ClearOneFrame ==
    [][Handled("clearFilter") =>
          /\ store'[last'.key] = Null
          /\ Project(store')[last'.key] = Cleared(last'.key)
          /\ OthersKept({last'.key})]_vars

\* programId=PRG-001 cleared next to another parameter that is present
C6_Witness ==
    /\ ReadByLast("clearFilter")
    /\ last.key = "programId"
    /\ state["programId"] = Str(W("PRG-001"))
    /\ store["programId"] = Null
    /\ store["statuses"] # Null

\* C7: after clearFilters every field of the schema decodes to its cleared
\* value: null for a scalar field, the empty sequence for an array field.
C7_ClearAllClears ==
    last.op = "clearFilters" =>
        \A key \in Keys : Project(store)[key] = Cleared(key) /\ store[key] = Null

\* clearFilters ran on a snapshot with a scalar and an array field set
C7_Witness ==
    /\ ReadByLast("clearFilters")
    /\ \E key \in Keys \ ArrayKeys : state[key] # Null
    /\ \E key \in ArrayKeys : state[key] # Arr(<<>>)
    /\ \A key \in Keys : store[key] = Null

\* C8: clearFilters right after clearFilters leaves the URL as the first
\* one left it.
C8_ClearAllIdempotent ==
    [][(Handled("clearFilters") /\ last'.again) => store' = store]_vars

\* the second of two clearFilters in a row has run
C8_Witness ==
    /\ last.op = "clearFilters"
    /\ last.again
    /\ stale = 1

\* C9: setFilters and clearFilters each make one setState call, which
\* carries every key they change: the URL goes in one step from the old
\* value of all these keys to the new one, the other parameters untouched.
C9_OneWrite ==
    [][(Handled("setFilters") \/ Handled("clearFilters")) =>
          LET keys == IF last'.op = "clearFilters" THEN Keys ELSE DOMAIN last'.arg
          IN /\ Len(last'.calls) = 1
             /\ DOMAIN last'.calls[1] = keys
             /\ \A k \in keys : store'[k] = queryOf(k, last'.calls[1][k])
             /\ OthersKept(keys)]_vars

\* setFilters changed two parameters of the URL at once
C9_Witness ==
    /\ ReadByLast("setFilters")
    /\ Cardinality({k \in DOMAIN last.arg : Project(store)[k] # state[k]}) >= 2

\* a value of the field's kind (for a literal field, one of its options)
InContract(key, value) == WellTyped(schema[key], value)

C11_ToggleScalarNoOp ==
    [][Handled("toggleArrayItem") /\ ~IsArrayType(schema[last'.key])
          => last'.calls = <<>> /\ store' = store]_vars

C11_Witness ==
    /\ ReadByLast("toggleArrayItem")
    /\ ~IsArrayType(schema[last.key])
    /\ store[last.key] # Null
    /\ state[last.key] # Null

\* C12: merging the URL state with the defaults, every defaulted array field
\* takes the array of the URL state when that has an item and the default
\* array otherwise; statuses = [] with the default [PENDING, APPROVED,
\* REJECTED] gives [PENDING, APPROVED, REJECTED].
C12_MergeArrays ==
    /\ \A key \in DOMAIN defaultValues :
          parsers[key].array =>
             initialValues(state, defaultValues)[key]
                = IF Len(state[key].v) = 0 THEN defaultValues[key] ELSE state[key]
    /\ initialValues([statuses |-> Arr(<<>>)], [statuses |-> Arr(APPROVAL_STATUSES)])
          = [statuses |-> Arr(APPROVAL_STATUSES)]

\* the page opened with `devices=`: the form starts from the default devices
C12_Witness ==
    /\ schema = reportFormSchema
    /\ last = NoOp
    /\ store["devices"] = Str(<<>>)
    /\ state["devices"] = Arr(<<>>)
    /\ defaultValues["devices"] = Arr(DEVICES)
    /\ form["devices"] = Arr(DEVICES)

\* C13: merging the URL state with the defaults, every defaulted scalar field
\* takes the value of the URL state unless that is null, and the default
\* then; keyword = null with the default "" gives "".
C13_MergeScalars ==
    /\ \A key \in DOMAIN defaultValues :
          ~parsers[key].array =>
             initialValues(state, defaultValues)[key]
                = IF state[key] # Null THEN state[key] ELSE defaultValues[key]
    /\ initialValues([keyword |-> Null], [keyword |-> Str(<<>>)])
          = [keyword |-> Str(<<>>)]

\* the page opened with `active=yes` and no keyword: false is kept against
\* the default true, the keyword starts from the default ""
C13_Witness ==
    /\ schema = searchFormSchema
    /\ "active" \in DOMAIN defaultValues
    /\ last = NoOp
    /\ state["keyword"] = Null
    /\ form["keyword"] = Str(<<>>)
    /\ state["active"] = Bool(FALSE)
    /\ defaultValues["active"] = Bool(TRUE)
    /\ form["active"] = Bool(FALSE)

\* C14: the merged values have exactly the keys of the defaults: a field of
\* the schema the defaults leave out is left out, URL value or not.
C14_MergeKeys ==
    DOMAIN initialValues(state, defaultValues) = DOMAIN defaultValues

\* programId is in the URL and not in the defaults: the form starts without it
C14_Witness ==
    /\ schema = reportFormSchema
    /\ last = NoOp
    /\ "programId" \in Keys \ DOMAIN defaultValues
    /\ store["programId"] # Null
    /\ state["programId"] # Null
    /\ DOMAIN form = DOMAIN defaultValues

IsInteger(q) ==
    LET digits == IF Len(q) > 0 /\ q[1] \in {"-", "+"} THEN Tail(q) ELSE q
    IN Len(digits) > 0 /\ \A i \in 1..Len(digits) : IsDigit(digits[i])

\* a raw string that is not a value of the scalar kind of the parser
Malformed(p, q) ==
    CASE p.base = "integer" -> ~IsInteger(q)
      [] p.base = "boolean" -> q \notin {W("true"), W("false")}
      [] p.base = "literal" -> q \notin Range(p.options)
      [] OTHER -> FALSE

\* C16: a malformed raw value of a scalar field reads as null: a string that is
\* not a number for an integer field (never 0, never a number made up from
\* part of it), a string outside the options for a literal field.
C16_MalformedReadsNull ==
    \A key \in Keys :
        ~parsers[key].array /\ store[key] # Null /\ Malformed(parsers[key], store[key].v)
            => Project(store)[key] = Null

\* C17: a literal-array field reads as the comma-separated entries of its raw
\* value that are among its options, in the order they are written, and as
\* the empty array when the URL has no such parameter.
C17_LiteralArrayDecode ==
    \A key \in Keys :
        parsers[key].array /\ parsers[key].base = "literal" =>
            Project(store)[key] =
                IF store[key] = Null THEN Arr(<<>>)
                ELSE Arr(SelectSeq(split(store[key].v, separator),
                                   LAMBDA entry : entry \in Range(parsers[key].options)))

\* statuses=APPROVED,BOGUS,PENDING reads as [APPROVED, PENDING]
C17_Witness ==
    /\ schema = filterSchema
    /\ store["statuses"] =
          Str(W("APPROVED") \o <<",">> \o W("BOGUS") \o <<",">> \o W("PENDING"))
    /\ state["statuses"] = Arr(<<W("APPROVED"), W("PENDING")>>)
    /\ store["devices"] = Null
    /\ state["devices"] = Arr(<<>>)

\* C18: whichever handler writes the empty array to an array field, the
\* parameter is removed from the URL, not written with an empty value.
C18_EmptyArrayRemoves ==
    [][stale' = stale + 1 =>
          \A i \in DOMAIN last'.calls : \A key \in DOMAIN last'.calls[i] :
              key \in ArrayKeys /\ last'.calls[i][key] = Arr(<<>>)
                  => store'[key] = Null]_vars

\* the only item of an array is toggled off and the parameter leaves the URL
C18_Witness ==
    /\ ReadByLast("toggleArrayItem")
    /\ last.key \in ArrayKeys
    /\ state[last.key] = Arr(<<last.arg.v>>)
    /\ last.calls = <<last.key :> Arr(<<>>)>>
    /\ store[last.key] = Null

\* typed values of a field: for a string array, arrays of non-empty strings
\* that do not hold the escape of the separator
RoundTripInputs(config) ==
    CASE config.type = "string"  ->
           {Str(<<>>), Str(<<"a", ",", "b">>), Str(<<"a", "%2C", "1">>)}
      [] config.type = "integer" ->
           {Num(n) : n \in {0 - 120, 0, 7, 105}}
      [] config.type = "boolean" -> {Bool(TRUE), Bool(FALSE)}
      [] config.type = "stringLiteral" -> {Str(o) : o \in Range(config.options)}
      [] config.type = "stringArray" ->
           {Arr(<<>>), Arr(<<<<"b", ",", "c">>, W("a")>>),
            Arr(<<<<",">>, W("a"), W("a"), <<",", ",">>>>),
            Arr(<<W("a"), <<>>>>), Arr(<<<<>>, <<>>>>)}
      [] config.type = "stringLiteralArray" ->
           {Arr(<<>>), Arr(config.options),
            Arr(<<config.options[2], config.options[1], config.options[2]>>)}

\* every typed value of a field: any array of strings for a string array
TypedInputs(config) ==
    IF config.type = "stringArray"
    THEN RoundTripInputs(config) \cup {Arr(<<<<>>>>), Arr(<<W("a"), <<"%2C">>>>)}
    ELSE RoundTripInputs(config)

\* the field as it reads after setFilter(key, value), which a handler may
\* call on a rendered page (stale = 0)
ReadBack(key, value) == Project(applyCalls(store, setFilterCalls(key, value)))[key]

\* C19 as stated: any typed value of a field, written with setFilter on any
\* URL, reads back from the URL as the very same value; an array has the
\* same items in the same order.
C19_RoundTripEveryValue ==
    stale = 0 =>
        \A key \in Keys : \A value \in TypedInputs(schema[key]) :
            ReadBack(key, value) = value

\* C19, amended: the same for every scalar value and for every array but a
\* string array that is the one empty string or has an item holding "%2C".
C19_RoundTrip ==
    stale = 0 =>
        \A key \in Keys : \A value \in RoundTripInputs(schema[key]) :
            ReadBack(key, value) = value

\* an item with a comma went through the URL escaped and reads back whole
C19_Witness ==
    /\ schema = tagSchema
    /\ ReadByLast("setFilter")
    /\ last.key = "tags"
    /\ last.arg = Arr(<<<<"b", ",", "c">>, W("a")>>)
    /\ store["tags"] = Str(<<"b", "%2C", "c", ",", "a">>)
    /\ Project(store)["tags"] = last.arg

\* C20: after setFilter or setFilters, a literal field the call wrote is in
\* the URL with one of its options or not at all: a value outside the
\* options is stopped by the handler and never reaches the URL.
C20_LiteralGuard ==
    last.op \in {"setFilter", "setFilters"} =>
        \A i \in DOMAIN last.calls : \A key \in DOMAIN last.calls[i] \cap Keys :
            parsers[key].base = "literal" /\ ~parsers[key].array =>
                \/ store[key] = Null
                \/ store[key].v \in Range(parsers[key].options)

\* wrappers put around a type in the types the translator is checked on
MaxWrap == 2

ZodBaseTypes ==
    {ZodString, ZodNumber, ZodBoolean, ZodEnum(DATE_TYPES),
     ZodArray(ZodEnum(DEVICES)), ZodArray(ZodString), ZodArray(ZodNumber),
     ZodArray(ZodOptional(ZodEnum(DEVICES))), ZodDate, [typeName |-> "ZodObject"]}

RECURSIVE Wrapped(_, _)
Wrapped(types, n) ==
    IF n = 0 THEN types
    ELSE LET inner == Wrapped(types, n - 1)
         IN inner \cup {ZodOptional(t) : t \in inner}
                  \cup {ZodNullable(t) : t \in inner}
                  \cup {ZodDefault(t) : t \in inner}

RECURSIVE Unwrap(_)
Unwrap(zodType) ==
    IF zodType.typeName \in {"ZodOptional", "ZodNullable", "ZodDefault"}
    THEN Unwrap(zodType.innerType)
    ELSE zodType

\* the parser useFilters builds for the kind the claim gives a Zod type
CodecOf(zodType) ==
    LET inner == Unwrap(zodType)
    IN createParser(
         CASE inner.typeName = "ZodString"  -> [type |-> "string"]
           [] inner.typeName = "ZodNumber"  -> [type |-> "integer"]
           [] inner.typeName = "ZodBoolean" -> [type |-> "boolean"]
           [] inner.typeName = "ZodEnum" ->
                [type |-> "stringLiteral", options |-> inner.values]
           [] inner.typeName = "ZodArray" /\ inner.type.typeName = "ZodEnum" ->
                [type |-> "stringLiteralArray", options |-> inner.type.values]
           [] inner.typeName = "ZodArray" -> [type |-> "stringArray"]
           [] OTHER -> [type |-> "string"])

\* C21: the translator gives a Zod type the parser of its kind: string for
\* ZodString, integer for ZodNumber, boolean for ZodBoolean, literal with the
\* enum's values for ZodEnum, literal array for an array of an enum, string
\* array for any other array, string for every other type; Optional,
\* Nullable and Default wrappers count as the type they wrap, however nested.
C21_Translator ==
    /\ IsZodSchema => \A key \in Keys : parsers[key] = CodecOf(schema[key])
    /\ last = NoOp =>
          \A zodType \in Wrapped(ZodBaseTypes, MaxWrap) :
              zodToNuqsParser(zodType) = CodecOf(zodType)

\* count is a number under three wrappers and reads as an integer; since is
\* a date, which has no case, and reads as a string
C21_Witness ==
    /\ schema = wrappedFormSchema
    /\ last = NoOp
    /\ store["count"] = Str(<<"1", "2", "abc">>)
    /\ state["count"] = Num(12)
    /\ store["since"] = Str(W("PRG-001"))
    /\ state["since"] = Str(W("PRG-001"))
    /\ state["kinds"].t = "arr"

C25_StaleToggle ==
    [][Handled("toggleArrayItem") /\ last'.lost =>
          LET key  == last'.key
              item == last'.arg.v
              S    == state[key].v
          IN /\ store'[key] = queryOf(key, Arr(IF includes(S, item)
                                               THEN Without(S, item)
                                               ELSE Append(S, item)))
             /\ last.arg.v \in Range(parsers[key].options) \/ parsers[key].base = "string"
                  => (includes(Project(store')[key].v, last.arg.v)
                         <=> includes(S, last.arg.v))]_vars

\* with nothing selected APPROVED and then PENDING are toggled before a
\* render: the URL holds PENDING only
C25_Witness ==
    /\ schema = filterSchema
    /\ stale = 2
    /\ last.op = "toggleArrayItem"
    /\ last.lost
    /\ last.key = "statuses"
    /\ last.arg = Str(W("PENDING"))
    /\ state["statuses"] = Arr(<<>>)
    /\ store["statuses"] = Str(W("PENDING"))

NoDuplicates(a) == \A i, j \in DOMAIN a : a[i] = a[j] => i = j

C22_OneUpdatePerHandler ==
    Len(last.calls) <= 1

\* C24: in the report sample a click on the checkbox of a status flips that
\* status in the selection the page shows (the state with the defaults
\* filled in) and leaves every other status as it is shown.
C24_ToggleFlipsShown ==
    [][Handled("toggleArrayItem") /\ stale = 0 =>
          LET key    == last'.key
              item   == last'.arg.v
              before == filtersWithDefaults(state)[key].v
              after  == filtersWithDefaults(Project(store'))[key].v
          IN /\ includes(after, item) <=> ~includes(before, item)
             /\ \A other \in Range(STATUSES) \ {item} :
                   includes(after, other) <=> includes(before, other)]_vars

\* C23: once a back or forward navigation is handled, the form shows the URL
\* the navigation restored: every field of the form is the value of that URL,
\* or the default where the URL has none.
C23_PopStateResync ==
    last.op = "popstate" => form = formValues(Project(store))

====
